---- MODULE Spec2Model ----
(***************************************************************************)
(* Model of the TiC MRF production ETL pipeline                            *)
(* (production_etl_pipeline.py and the tic_mrf_scraper package).           *)
(*                                                                         *)
(* Spec is the orchestrator: process_all_payers -> process_payer ->        *)
(* process_mrf_file_enhanced -> write_batches_to_s3 -> upload_batch_to_s3. *)
(* One action is one step of the code: the discovery part of               *)
(* process_payer, the start of a file, one iteration of the streaming      *)
(* loop (with the flush it triggers), the end of the stream (with the      *)
(* tail flush), the return of process_payer and the final report.          *)
(***************************************************************************)
EXTENDS Integers, Sequences, FiniteSets, TLC

\* Python None for a string-valued slot, for an Optional[int] slot and for
\* an Optional[dict] slot
None == "None"
NoLimit == -1
NoRecord == [is_none |-> TRUE]

(* ----------------------------- bounds ---------------------------------- *)
\* number of configured payers (config.payer_endpoints)
NumPayers == 2
\* most descriptors the indexes of one run of Spec list (all payers together)
MaxRunFiles == 2
\* most tuples the parser yields in one run of Spec (all files together)
MaxRunTuples == 1
\* most tuples the parser yields in one run of SpecFile (all files together)
MaxTuples == 3

(* ----------------------------- inputs ---------------------------------- *)
Tables == <<"rates", "organizations", "providers">>
TableSet == {"rates", "organizations", "providers"}

cpt_whitelist == {"99213"}

\* provider_npi of a raw tuple: absent, a scalar, or a list
NoNpi == [kind |-> "none", v |-> <<>>]
ScalarNpi(n) == [kind |-> "scalar", v |-> <<n>>]
ListNpi(s) == [kind |-> "list", v |-> s]

\* the raw tuples a parser pull can yield (parser._create_rate_record keys)
RawTuples ==
  { [billing_code |-> "99213", negotiated_rate |-> 1, provider_tin |-> "t1",
     provider_name |-> "", provider_npi |-> ScalarNpi("n1")],
    [billing_code |-> "99213", negotiated_rate |-> 1, provider_tin |-> "t2",
     provider_name |-> "", provider_npi |-> ListNpi(<<"n1", "n2">>)],
    [billing_code |-> "99213", negotiated_rate |-> 0, provider_tin |-> "t1",
     provider_name |-> "", provider_npi |-> NoNpi],
    [billing_code |-> "70450", negotiated_rate |-> 1, provider_tin |-> "t1",
     provider_name |-> "", provider_npi |-> ScalarNpi("n2")] }

FileTypes == {"in_network_rates", "allowed_amounts"}

\* the descriptor lists list_mrf_files can return: url is the position in
\* the index, type the descriptor kind
RECURSIVE SeqsUpTo(_, _)
SeqsUpTo(S, n) ==
  IF n = 0 THEN {<<>>}
  ELSE LET shorter == SeqsUpTo(S, n - 1)
       IN shorter \cup {Append(s, x) : s \in {q \in shorter : Len(q) = n - 1}, x \in S}

IndexLists ==
  { [i \in 1..Len(ts) |-> [url |-> i, type |-> ts[i]]] : ts \in SeqsUpTo(FileTypes, MaxRunFiles) }

\* outcome of one upload / local write per table
Outcomes == [TableSet -> {"ok", "fail"}]

\* the configurations tried: Spec varies the knobs of the payer and file
\* loops, SpecFile those of the streaming loop
RunConfigs ==
  [ batch_size : {1},
    max_files_per_payer : {NoLimit, 0, 1},
    max_records_per_file : {NoLimit},
    s3_bucket : BOOLEAN ]

FileConfigs ==
  [ batch_size : {1, 2},
    max_files_per_payer : {NoLimit},
    max_records_per_file : {NoLimit, 0, 1, 2},
    s3_bucket : BOOLEAN ]

(* --------------------------- pure helpers ------------------------------ *)
\* Python truthiness ("not x") of a string-or-None, a number, a sequence
FalsyStr(v) == v = None \/ v = ""
FalsyNum(v) == v = 0
FalsySeq(v) == v = <<>>

RECURSIVE Concat(_)
\* the concatenation of a sequence of sequences
Concat(ss) == IF ss = <<>> THEN <<>> ELSE Head(ss) \o Concat(Tail(ss))

\* UUIDGenerator: uuid5 of the namespace and the "|"-joined components,
\* modelled as the (collision-free) tuple of namespace and components
generate_uuid(namespace, components) == <<namespace>> \o components
payer_uuid(payer_name) == generate_uuid("payers", <<payer_name, "">>)
organization_uuid(tin, org_name) == generate_uuid("organizations", <<tin, org_name>>)
provider_uuid(npi) == generate_uuid("providers", <<npi>>)
rate_uuid(p_uuid, org_uuid, service_code, rate, effective_date) ==
  generate_uuid("rates", <<p_uuid, org_uuid, service_code, rate, effective_date>>)

\* normalize_tic_record: drop a tuple whose billing code is not whitelisted,
\* else map it to the canonical fields
normalize_tic_record(raw, whitelist, payer) ==
  IF FalsyStr(raw.billing_code) \/ raw.billing_code \notin whitelist THEN NoRecord
  ELSE [service_code |-> raw.billing_code,
        negotiated_rate |-> raw.negotiated_rate,
        provider_tin |-> raw.provider_tin,
        provider_name |-> raw.provider_name,
        provider_npi |-> raw.provider_npi,
        payer |-> payer]

validate_ignoring_required(record) ==
  [is_validated |-> TRUE, has_conflicts |-> FALSE, confidence_score |-> 10]

\* DataQualityValidator.validate_rate_record; confidence_score in tenths
validate_rate_record(record) ==
  LET missing == \/ FalsyStr(record.service_code)
                 \/ FalsyNum(record.negotiated_rate)
                 \/ FalsySeq(record.payer_uuid)
                 \/ FalsySeq(record.organization_uuid)
      rate == record.negotiated_rate
      conflict == rate <= 0 \/ rate > 10000
      no_npi == record.npi_list = <<>>
  IN [is_validated |-> ~missing,
      has_conflicts |-> conflict,
      confidence_score |-> 10 - (IF missing THEN 3 ELSE 0)
                              - (IF conflict THEN 2 ELSE 0)
                              - (IF no_npi THEN 1 ELSE 0)]

create_rate_record_keyed_by_file(p_uuid, normalized, file_info) ==
  LET org_uuid == organization_uuid(normalized.provider_tin, normalized.provider_name)
  IN [rate_uuid |-> generate_uuid("rates", <<p_uuid, org_uuid, normalized.service_code,
                                             normalized.negotiated_rate, "",
                                             file_info.url>>),
      payer_uuid |-> p_uuid,
      organization_uuid |-> org_uuid,
      service_code |-> normalized.service_code,
      negotiated_rate |-> normalized.negotiated_rate,
      npi_list |-> normalized.provider_npi.v,
      source_file_url |-> file_info.url]

\* create_rate_record
create_rate_record(p_uuid, normalized, file_info) ==
  LET org_uuid == organization_uuid(normalized.provider_tin, normalized.provider_name)
  IN [rate_uuid |-> rate_uuid(p_uuid, org_uuid, normalized.service_code,
                              normalized.negotiated_rate, ""),
      payer_uuid |-> p_uuid,
      organization_uuid |-> org_uuid,
      service_code |-> normalized.service_code,
      negotiated_rate |-> normalized.negotiated_rate,
      npi_list |-> normalized.provider_npi.v,
      source_file_url |-> file_info.url]

\* create_organization_record
create_organization_record(normalized) ==
  [organization_uuid |-> organization_uuid(normalized.provider_tin, normalized.provider_name),
   tin |-> normalized.provider_tin,
   organization_name |-> IF FalsyStr(normalized.provider_name)
                         THEN <<"Organization-", normalized.provider_tin>>
                         ELSE <<normalized.provider_name>>]

\* create_provider_records: one record per NPI of the tuple
create_provider_records(normalized) ==
  LET npi_list == normalized.provider_npi.v
      org_uuid == organization_uuid(normalized.provider_tin, normalized.provider_name)
  IN [i \in 1..Len(npi_list) |->
        [provider_uuid |-> provider_uuid(npi_list[i]),
         npi |-> npi_list[i],
         organization_uuid |-> org_uuid]]

(* --------------------------- batch emitter ----------------------------- *)
\* upload_batch_to_s3: TRUE for an empty batch, else whether the write and
\* the upload went through (every exception is caught and gives FALSE)
upload_batch_to_s3(batch_data, outcome) ==
  IF batch_data = <<>> THEN TRUE ELSE outcome = "ok"

\* write_batches_local: append_to_parquet per non-empty table, in order; an
\* exception of a write is not caught and ends the flush
write_batches_local(b, o) ==
  LET raises(i) == b[Tables[i]] # <<>> /\ o[Tables[i]] = "fail"
      reached(i) == \A j \in 1..(i - 1) : ~raises(j)
      res == [t \in TableSet |->
                LET i == CHOOSE k \in 1..3 : Tables[k] = t
                IN IF ~reached(i) THEN "unreached"
                   ELSE IF b[t] = <<>> THEN "skipped"
                   ELSE IF raises(i) THEN "raised" ELSE "written"]
  IN [files_uploaded |-> Cardinality({t \in TableSet : res[t] = "written"}),
      result |-> res,
      raised |-> \E t \in TableSet : res[t] = "raised"]

write_batches_uncaught(b, s3, o) == write_batches_local(b, o)

\* write_batches_to_s3: each non-empty batch is uploaded under a key that
\* carries batch_number; files_uploaded counts the successful uploads
write_batches_to_s3(b, s3, o) ==
  IF ~s3 THEN write_batches_local(b, o)
  ELSE LET res == [t \in TableSet |->
                     IF b[t] = <<>> THEN "skipped"
                     ELSE IF upload_batch_to_s3(b[t], o[t]) THEN "uploaded"
                     ELSE "failed"]
       IN [files_uploaded |-> Cardinality({t \in TableSet : res[t] = "uploaded"}),
           result |-> res,
           raised |-> FALSE]

(* ------------------------------ state ---------------------------------- *)
VARIABLES
  config,          \* ETLConfig of the run
  pc,              \* position in process_all_payers
  temp_dir,        \* self.temp_dir: "none", "exists" or "removed"
  stats,           \* self.stats
  payer_idx,       \* position in config.payer_endpoints
  payer_stats,     \* payer_stats of process_payer
  rate_files,      \* rate_files of process_payer
  file_idx,        \* file_index of the file loop
  file_stats,      \* file_stats of process_mrf_file_enhanced
  rate_batch,
  org_batch,
  provider_batch,
  budget,          \* input still to come: tuples the parser can yield, and
                   \* descriptors the indexes can list
  appended,        \* history: rows appended to each batch, current file
  flushes,         \* history: the flushes of the current file
  file_status,     \* history: how the current file ended
  file_log,        \* history: files attempted for the current payer
  payer_log,       \* history: payers attempted in the run
  run_status,      \* history: how process_all_payers ended
  unit             \* the call of a component taken on its own: the
                   \* validator, normalizer, parser, fetcher or registry

vars == <<config, pc, temp_dir, stats, payer_idx, payer_stats, rate_files, file_idx,
          file_stats, rate_batch, org_batch, provider_batch, budget, appended,
          flushes, file_status, file_log, payer_log, run_status, unit>>

file_vars == <<file_stats, rate_batch, org_batch, provider_batch, appended,
               flushes, file_status>>

EmptyBatches == [t \in TableSet |-> <<>>]

\* no component call is under way (the pipeline runs as a whole)
NoUnit == [op |-> "none"]

\* ProductionETLPipeline.__init__: self.stats
InitStats ==
  [payers_processed |-> 0, total_files_found |-> 0, files_processed |-> 0,
   files_succeeded |-> 0, files_failed |-> 0, records_extracted |-> 0,
   records_validated |-> 0, s3_uploads |-> 0, errors |-> <<>>]

\* process_payer: the fresh payer_stats
InitPayerStats ==
  [files_found |-> 0, files_processed |-> 0, files_succeeded |-> 0,
   files_failed |-> 0, records_extracted |-> 0, records_validated |-> 0,
   failed_files |-> <<>>]

\* process_mrf_file_enhanced: the fresh file_stats
InitFileStats ==
  [records_extracted |-> 0, records_validated |-> 0,
   organizations_created |-> {}, s3_uploads |-> 0]

Init ==
  /\ config \in RunConfigs
  /\ budget = [tuples |-> MaxRunTuples, files |-> MaxRunFiles]
  /\ pc = "payer"
  /\ temp_dir = IF config.s3_bucket THEN "exists" ELSE "none"
  /\ stats = InitStats
  /\ payer_idx = 1
  /\ payer_stats = InitPayerStats
  /\ rate_files = <<>>
  /\ file_idx = 1
  /\ file_stats = InitFileStats
  /\ rate_batch = <<>>
  /\ org_batch = <<>>
  /\ provider_batch = <<>>
  /\ appended = EmptyBatches
  /\ flushes = <<>>
  /\ file_status = "none"
  /\ file_log = <<>>
  /\ payer_log = <<>>
  /\ run_status = "running"
  /\ unit = NoUnit

ResetFile ==
  /\ file_stats' = InitFileStats
  /\ rate_batch' = <<>>
  /\ org_batch' = <<>>
  /\ provider_batch' = <<>>
  /\ appended' = EmptyBatches
  /\ flushes' = <<>>
  /\ file_status' = "none"

\* where the payer loop of process_all_payers goes after payer number i
AfterPayer(i) == IF i >= NumPayers THEN "report" ELSE "payer"

AfterFailedPayerAborts(i) == "report"

\* where it goes when process_payer raised: the except clause is inside the
\* loop, which takes the next payer
AfterFailedPayer(i) == AfterPayer(i)

(* ---------------------------- process_payer ---------------------------- *)
\* "if self.config.max_files_per_payer:" (None and 0 are both falsy)
Truthy(limit) == limit # NoLimit /\ limit # 0

\* rate_files of process_payer: the in-network-rate descriptors, cut to
\* max_files_per_payer when that is truthy
SelectRateFiles(mrf_files, max_files) ==
  LET rf == SelectSeq(mrf_files, LAMBDA f : f.type = "in_network_rates")
  IN IF Truthy(max_files)
     THEN SubSeq(rf, 1, IF max_files < Len(rf) THEN max_files ELSE Len(rf))
     ELSE rf

FileSucceededUncounted(ps, fs) ==
  [ps EXCEPT !.records_extracted = @ + fs.records_extracted,
             !.records_validated = @ + fs.records_validated]

\* process_payer: a file returned its file_stats
FileSucceeded(ps, fs) ==
  [ps EXCEPT !.files_succeeded = @ + 1,
             !.records_extracted = @ + fs.records_extracted,
             !.records_validated = @ + fs.records_validated]

FileFailedUnrecorded(ps, url) == [ps EXCEPT !.files_failed = @ + 1]

\* process_payer: the except clause of the file loop
FileFailed(ps, url) ==
  [ps EXCEPT !.files_failed = @ + 1,
             !.failed_files = Append(@, url)]

\* process_all_payers: the counters added after process_payer returned
AddPayerStats(st, ps) ==
  [st EXCEPT !.payers_processed = @ + 1,
             !.total_files_found = @ + ps.files_found,
             !.files_processed = @ + ps.files_processed,
             !.files_succeeded = @ + ps.files_succeeded,
             !.files_failed = @ + ps.files_failed,
             !.records_extracted = @ + ps.records_extracted,
             !.records_validated = @ + ps.records_validated]

\* process_payer raises before the file loop (index analysis or listing
\* failed); process_all_payers records the error and goes on
DiscoverFails ==
  /\ pc = "payer"
  /\ stats' = [stats EXCEPT !.errors = Append(@, payer_idx)]
  /\ payer_log' = Append(payer_log, [payer |-> payer_idx, status |-> "raised"])
  /\ payer_stats' = InitPayerStats
  /\ rate_files' = <<>>
  /\ file_idx' = 1
  /\ file_log' = <<>>
  /\ ResetFile
  /\ payer_idx' = payer_idx + 1
  /\ pc' = AfterFailedPayer(payer_idx)
  /\ UNCHANGED <<unit, config, temp_dir, budget, run_status>>

\* process_payer up to the file loop: the handler lists the files
Discover(mrf_files) ==
  /\ pc = "payer"
  /\ Len(mrf_files) <= budget.files
  /\ budget' = [budget EXCEPT !.files = @ - Len(mrf_files)]
  /\ rate_files' = SelectRateFiles(mrf_files, config.max_files_per_payer)
  /\ payer_stats' = [InitPayerStats EXCEPT !.files_found =
                       Len(SelectRateFiles(mrf_files, NoLimit))]
  /\ file_idx' = 1
  /\ file_log' = <<>>
  /\ ResetFile
  /\ pc' = "file"
  /\ UNCHANGED <<unit, config, temp_dir, stats, payer_idx, payer_log, run_status>>

\* process_payer returns payer_stats (no rate file, or the file loop is
\* over); process_all_payers adds the counters
CompletePayer ==
  /\ pc = "file"
  /\ file_idx > Len(rate_files)
  /\ stats' = AddPayerStats(stats, payer_stats)
  /\ payer_log' = Append(payer_log, [payer |-> payer_idx, status |-> "returned",
                                     stats |-> payer_stats])
  /\ payer_idx' = payer_idx + 1
  /\ pc' = AfterPayer(payer_idx)
  /\ payer_stats' = InitPayerStats
  /\ rate_files' = <<>>
  /\ file_idx' = 1
  /\ file_log' = <<>>
  /\ ResetFile
  /\ UNCHANGED <<unit, config, temp_dir, budget, run_status>>

(* ---------------------- process_mrf_file_enhanced ---------------------- *)
\* the file loop takes the next file; the diagnostics before the stream pass
StartFile ==
  /\ pc = "file"
  /\ file_idx <= Len(rate_files)
  /\ payer_stats' = [payer_stats EXCEPT !.files_processed = @ + 1]
  /\ file_stats' = InitFileStats
  /\ rate_batch' = <<>>
  /\ org_batch' = <<>>
  /\ provider_batch' = <<>>
  /\ appended' = EmptyBatches
  /\ flushes' = <<>>
  /\ file_status' = "streaming"
  /\ pc' = "stream"
  /\ UNCHANGED <<unit, config, temp_dir, budget, stats, payer_idx, rate_files, file_idx,
                 file_log, payer_log, run_status>>

\* the file ends with an exception: process_payer marks it failed
FileExitFailed(ps) ==
  /\ payer_stats' = FileFailed(ps, rate_files[file_idx].url)
  /\ file_log' = Append(file_log, [url |-> rate_files[file_idx].url, status |-> "failed"])
  /\ file_status' = "failed"
  /\ rate_batch' = <<>>
  /\ org_batch' = <<>>
  /\ provider_batch' = <<>>
  /\ file_idx' = file_idx + 1
  /\ pc' = "file"

\* the file returns its file_stats fs: process_payer marks it succeeded
FileExitSucceeded(fs) ==
  /\ payer_stats' = FileSucceeded(payer_stats, fs)
  /\ file_log' = Append(file_log, [url |-> rate_files[file_idx].url, status |-> "succeeded"])
  /\ file_status' = "succeeded"
  /\ rate_batch' = <<>>
  /\ org_batch' = <<>>
  /\ provider_batch' = <<>>
  /\ file_idx' = file_idx + 1
  /\ pc' = "file"

\* the file loop takes the next file; the diagnostics before the stream
\* (or the file name) raise
StartFileFails ==
  /\ pc = "file"
  /\ file_idx <= Len(rate_files)
  /\ FileExitFailed([payer_stats EXCEPT !.files_processed = @ + 1])
  /\ file_stats' = InitFileStats
  /\ appended' = EmptyBatches
  /\ flushes' = <<>>
  /\ UNCHANGED <<unit, config, temp_dir, budget, stats, payer_idx, rate_files, payer_log, run_status>>

LimitReachedOffByOne(limit, extracted) == limit # NoLimit /\ extracted > limit

\* "self.config.max_records_per_file is not None and
\*  file_stats['records_extracted'] >= self.config.max_records_per_file"
LimitReached(limit, extracted) == limit # NoLimit /\ extracted >= limit

OrgAlwaysNew(org_uuid, created) == TRUE

\* "if org_uuid not in file_stats['organizations_created']"
OrgIsNew(org_uuid, created) == org_uuid \notin created

\* "if len(rate_batch) >= batch_size"
BatchFull(rb, batch_size) == Len(rb) >= batch_size

TailNever(rb) == FALSE

\* "if rate_batch:" before the final write
TailNeeded(rb) == rb # <<>>

is_validated_always(quality_flags) == TRUE

\* "if quality_flags['is_validated']:"
is_validated(quality_flags) == quality_flags.is_validated

Batches(rb, ob, pb) == [rates |-> rb, organizations |-> ob, providers |-> pb]

\* the loop body up to the flush check: count, normalize, build, validate,
\* append.  new are the rows appended, check_flush is FALSE after "continue"
ProcessTuple(raw, fs, rb, ob, pb, file_info, payer) ==
  LET fs1 == [fs EXCEPT !.records_extracted = @ + 1]
      normalized == normalize_tic_record(raw, cpt_whitelist, payer)
  IN IF normalized = NoRecord
     THEN [file_stats |-> fs1, batch |-> Batches(rb, ob, pb),
           new |-> EmptyBatches, check_flush |-> FALSE]
     ELSE LET rate_record == create_rate_record(payer_uuid(payer), normalized, file_info)
              quality_flags == validate_rate_record(rate_record)
              row == ("quality_flags" :> quality_flags) @@ rate_record
              org_uuid == rate_record.organization_uuid
              orgs == IF OrgIsNew(org_uuid, fs.organizations_created)
                      THEN <<create_organization_record(normalized)>>
                      ELSE <<>>
              provs == create_provider_records(normalized)
          IN IF is_validated(quality_flags)
             THEN [file_stats |-> [fs1 EXCEPT !.records_validated = @ + 1,
                                              !.organizations_created = @ \cup {org_uuid}],
                   batch |-> Batches(Append(rb, row), ob \o orgs, pb \o provs),
                   new |-> Batches(<<row>>, orgs, provs),
                   check_flush |-> TRUE]
             ELSE [file_stats |-> fs1, batch |-> Batches(rb, ob, pb),
                   new |-> EmptyBatches, check_flush |-> TRUE]

\* one call of write_batches_to_s3 as the history records it
FlushEvent(b, batch_number, w, tail) ==
  [batch_number |-> batch_number, batch |-> b, result |-> w.result, tail |-> tail]

\* the code after the loop: the final write, then the return of file_stats
EndOfStream(o) ==
  LET b == Batches(rate_batch, org_batch, provider_batch)
      w == write_batches_to_s3(b, config.s3_bucket, o)
      fs == [file_stats EXCEPT !.s3_uploads = @ + w.files_uploaded]
  IN IF TailNeeded(rate_batch)
     THEN /\ flushes' = Append(flushes, FlushEvent(b, file_stats.s3_uploads, w, TRUE))
          /\ IF w.raised
             THEN /\ FileExitFailed(payer_stats)
                  /\ UNCHANGED <<file_stats, stats>>
             ELSE /\ file_stats' = fs
                  /\ stats' = [stats EXCEPT !.s3_uploads = @ + w.files_uploaded]
                  /\ FileExitSucceeded(fs)
     ELSE /\ FileExitSucceeded(file_stats)
          /\ UNCHANGED <<flushes, file_stats, stats>>

\* the parser is exhausted
StreamEnd(o) ==
  /\ pc = "stream"
  /\ EndOfStream(o)
  /\ UNCHANGED <<unit, config, temp_dir, payer_idx, rate_files, budget, appended, payer_log,
                 run_status>>

\* the parser (or the fetch under it) raises
StreamRaise ==
  /\ pc = "stream"
  /\ FileExitFailed(payer_stats)
  /\ UNCHANGED <<unit, config, temp_dir, stats, payer_idx, rate_files, file_stats, budget,
                 appended, flushes, payer_log, run_status>>

\* the parser yields raw: one iteration of the streaming loop
StreamTuple(raw, o) ==
  /\ pc = "stream"
  /\ budget.tuples > 0
  /\ budget' = [budget EXCEPT !.tuples = @ - 1]
  /\ IF LimitReached(config.max_records_per_file, file_stats.records_extracted)
     THEN /\ EndOfStream(o)
          /\ UNCHANGED appended
     ELSE LET r == ProcessTuple(raw, file_stats, rate_batch, org_batch, provider_batch,
                                rate_files[file_idx], payer_idx)
              w == write_batches_to_s3(r.batch, config.s3_bucket, o)
          IN /\ appended' = [t \in TableSet |-> appended[t] \o r.new[t]]
             /\ IF r.check_flush /\ BatchFull(r.batch.rates, config.batch_size)
                THEN /\ flushes' = Append(flushes,
                                     FlushEvent(r.batch, r.file_stats.s3_uploads, w, FALSE))
                     /\ IF w.raised
                        THEN /\ FileExitFailed(payer_stats)
                             /\ file_stats' = r.file_stats
                             /\ UNCHANGED stats
                        ELSE /\ file_stats' = [r.file_stats EXCEPT
                                                 !.s3_uploads = @ + w.files_uploaded]
                             /\ stats' = [stats EXCEPT !.s3_uploads = @ + w.files_uploaded]
                             /\ rate_batch' = <<>>
                             /\ org_batch' = <<>>
                             /\ provider_batch' = <<>>
                             /\ UNCHANGED <<payer_stats, file_idx, file_log, file_status, pc>>
                ELSE /\ file_stats' = r.file_stats
                     /\ rate_batch' = r.batch.rates
                     /\ org_batch' = r.batch.organizations
                     /\ provider_batch' = r.batch.providers
                     /\ UNCHANGED <<flushes, stats, payer_stats, file_idx, file_log,
                                    file_status, pc>>
  /\ UNCHANGED <<unit, config, temp_dir, payer_idx, rate_files, payer_log, run_status>>

(* ------------------------- process_all_payers -------------------------- *)
cleanup_skipped(dir) == dir

\* cleanup_temp_directory: "if self.temp_dir: shutil.rmtree(...)"
cleanup_temp_directory(dir) == IF dir = "exists" THEN "removed" ELSE dir

\* after the payer loop: the aggregated tables (local mode), the final
\* statistics, and the cleanup of the finally clause
FinalReport ==
  /\ pc = "report"
  /\ run_status' = "reported"
  /\ temp_dir' = cleanup_temp_directory(temp_dir)
  /\ pc' = "done"
  /\ UNCHANGED <<unit, config, budget, stats, payer_idx, payer_stats, rate_files, file_idx,
                 file_log, payer_log>>
  /\ UNCHANGED file_vars

\* generate_aggregated_tables (local mode only) raises
AggregateRaises ==
  /\ pc = "report"
  /\ ~config.s3_bucket
  /\ run_status' = "aggregate_raised"
  /\ temp_dir' = cleanup_temp_directory(temp_dir)
  /\ pc' = "done"
  /\ UNCHANGED <<unit, config, budget, stats, payer_idx, payer_stats, rate_files, file_idx,
                 file_log, payer_log>>
  /\ UNCHANGED file_vars

\* log_final_statistics raises while it writes the local statistics file
\* (with S3 the failure of the upload is caught)
ReportRaises ==
  /\ pc = "report"
  /\ ~config.s3_bucket
  /\ run_status' = "report_raised"
  /\ temp_dir' = cleanup_temp_directory(temp_dir)
  /\ pc' = "done"
  /\ UNCHANGED <<unit, config, budget, stats, payer_idx, payer_stats, rate_files, file_idx,
                 file_log, payer_log>>
  /\ UNCHANGED file_vars

Next ==
  \/ DiscoverFails
  \/ \E mrf_files \in IndexLists : Discover(mrf_files)
  \/ CompletePayer
  \/ StartFile
  \/ StartFileFails
  \/ \E raw \in RawTuples, o \in Outcomes : StreamTuple(raw, o)
  \/ \E o \in Outcomes : StreamEnd(o)
  \/ StreamRaise
  \/ FinalReport
  \/ AggregateRaises
  \/ ReportRaises

Spec == Init /\ [][Next]_vars

(* --------------------- the file loop of one payer ---------------------- *)
\* the state process_payer is in when its handler has listed two
\* in-network-rate files, for the streaming-loop configurations
InitFile ==
  /\ config \in FileConfigs
  /\ budget = [tuples |-> MaxTuples, files |-> 0]
  /\ pc = "file"
  /\ temp_dir = IF config.s3_bucket THEN "exists" ELSE "none"
  /\ stats = InitStats
  /\ payer_idx = 1
  /\ rate_files = <<[url |-> 1, type |-> "in_network_rates"],
                    [url |-> 2, type |-> "in_network_rates"]>>
  /\ payer_stats = [InitPayerStats EXCEPT !.files_found = 2]
  /\ file_idx = 1
  /\ file_stats = InitFileStats
  /\ rate_batch = <<>>
  /\ org_batch = <<>>
  /\ provider_batch = <<>>
  /\ appended = EmptyBatches
  /\ flushes = <<>>
  /\ file_status = "none"
  /\ file_log = <<>>
  /\ payer_log = <<>>
  /\ run_status = "running"
  /\ unit = NoUnit

NextFile ==
  \/ StartFile
  \/ StartFileFails
  \/ \E raw \in RawTuples, o \in Outcomes : StreamTuple(raw, o)
  \/ \E o \in Outcomes : StreamEnd(o)
  \/ StreamRaise

SpecFile == InitFile /\ [][NextFile]_vars

(* ----------------------- components on their own ----------------------- *)
\* JSON / Python values of the dictionaries the components read: null (an
\* absent key reads as null through dict.get), numbers, strings, lists
JNull == [null |-> TRUE]
JNum(n) == [num |-> n]
JStr(s) == [str |-> s]
JList(s) == [list |-> s]

\* dict.get(k) with the default None
Get(d, k) == IF k \in DOMAIN d THEN d[k] ELSE JNull

\* Python truthiness: "not v"
Falsy(v) == v = JNull \/ v = JNum(0) \/ v = JStr("") \/ v = JList(<<>>)

\* the decimal strings the inputs use, and the number float() reads in them
ParseFloat(s) == CASE s = "1" -> 1 [] s = "2.0" -> 2 [] OTHER -> 0

\* float(v) of a number or of a decimal string
float(v) == IF "num" \in DOMAIN v THEN v.num ELSE ParseFloat(v.str)

normalize_unfiltered(record, whitelist, payer) ==
  [service_code |-> Get(record, "billing_code"),
   negotiated_rate |-> JNum(1),
   payer |-> JStr(payer)]

\* normalize_record
normalize_record(record, whitelist, payer) ==
  LET billing_code == IF ~Falsy(Get(record, "billing_code"))
                      THEN Get(record, "billing_code")
                      ELSE Get(record, "cpt_code")
      rate == IF "negotiated_rates" \in DOMAIN record /\ ~Falsy(record.negotiated_rates)
              THEN Get(record.negotiated_rates.list[1], "negotiated_price")
              ELSE IF "negotiated_rate" \in DOMAIN record
                   THEN record.negotiated_rate
                   ELSE JNull
  IN IF Falsy(billing_code) \/ billing_code \notin whitelist THEN NoRecord
     ELSE IF rate = JNull THEN NoRecord
     ELSE [service_code |-> billing_code,
           negotiated_rate |-> JNum(float(rate)),
           payer |-> JStr(payer)]

\* the dictionaries with any choice of one value (or absence) per key
\* of choices, a function from keys to sets of values
RECURSIVE Dicts(_, _)
Dicts(base, choices) ==
  IF DOMAIN choices = {} THEN {base}
  ELSE LET k == CHOOSE key \in DOMAIN choices : TRUE
           rest == Dicts(base, [key \in DOMAIN choices \ {k} |-> choices[key]])
       IN rest \cup {(k :> v) @@ d : v \in choices[k], d \in rest}

\* the raw records offered to normalize_record
NormRecords ==
  Dicts([plan_id |-> JStr("planA")],
        [billing_code |-> {JStr("99213"), JStr("70450"), JStr("")},
         cpt_code |-> {JStr("99213")},
         negotiated_rates |-> {JList(<<>>),
                               JList(<<[negotiated_price |-> JNum(2)]>>),
                               JList(<<[negotiated_type |-> JStr("negotiated")]>>)},
         negotiated_rate |-> {JNull, JNum(1), JStr("2.0")}])

NormWhitelists == {{}, {JStr("99213")}, {JStr("99213"), JStr("70450")}}

\* the rate rows offered to validate_rate_record
RateRows ==
  [service_code : {"99213", "", None},
   negotiated_rate : {-1, 0, 1, 10001},
   payer_uuid : {<<>>, payer_uuid(1)},
   organization_uuid : {<<>>, organization_uuid("t1", "")},
   npi_list : {<<>>, <<"n1">>}]

\* the pipeline as it stands while a component is called on its own
IdlePipeline ==
  /\ config = [batch_size |-> 1, max_files_per_payer |-> NoLimit,
               max_records_per_file |-> NoLimit, s3_bucket |-> FALSE]
  /\ budget = [tuples |-> 0, files |-> 0]
  /\ pc = "idle"
  /\ temp_dir = "none"
  /\ stats = InitStats
  /\ payer_idx = 1
  /\ payer_stats = InitPayerStats
  /\ rate_files = <<>>
  /\ file_idx = 1
  /\ file_stats = InitFileStats
  /\ rate_batch = <<>>
  /\ org_batch = <<>>
  /\ provider_batch = <<>>
  /\ appended = EmptyBatches
  /\ flushes = <<>>
  /\ file_status = "none"
  /\ file_log = <<>>
  /\ payer_log = <<>>
  /\ run_status = "running"

pipeline_vars == <<config, pc, temp_dir, stats, payer_idx, payer_stats, rate_files,
                   file_idx, file_stats, rate_batch, org_batch, provider_batch, budget,
                   appended, flushes, file_status, file_log, payer_log, run_status>>

\* the calls about to be made
ValidateCalls == {[op |-> "validate", record |-> r, done |-> FALSE] : r \in RateRows}

NormalizeCalls ==
  {[op |-> "normalize", record |-> r, whitelist |-> w, payer |-> "PAYER1", done |-> FALSE] :
     r \in NormRecords, w \in NormWhitelists}

\* DataQualityValidator.validate_rate_record(record) returns
Validate ==
  /\ unit.op = "validate" /\ ~unit.done
  /\ unit' = [op |-> "validate", record |-> unit.record, done |-> TRUE,
              result |-> validate_rate_record(unit.record)]
  /\ UNCHANGED pipeline_vars

\* normalize_record(record, whitelist, payer) returns
Normalize ==
  /\ unit.op = "normalize" /\ ~unit.done
  /\ unit' = [op |-> "normalize", record |-> unit.record, whitelist |-> unit.whitelist,
              payer |-> unit.payer, done |-> TRUE,
              result |-> normalize_record(unit.record, unit.whitelist, unit.payer)]
  /\ UNCHANGED pipeline_vars

\* normalize_record applied to the row it returned
Renormalize ==
  /\ unit.op = "normalize" /\ unit.done
  /\ unit.result # NoRecord
  /\ unit' = [op |-> "renormalize", record |-> unit.record, whitelist |-> unit.whitelist,
              payer |-> unit.payer, done |-> TRUE, result |-> unit.result,
              again |-> normalize_record(unit.result, unit.whitelist, unit.payer)]
  /\ UNCHANGED pipeline_vars

(* ------------------------------ the parser ----------------------------- *)
\* what a generator has done when it stops: the tuples it yielded, and
\* whether it stopped by raising
Yielded(ts) == [tuples |-> ts, raised |-> FALSE]
Raised(ts) == [tuples |-> ts, raised |-> TRUE]

\* nested generators run one after the other; an exception ends them all
RECURSIVE Chain(_)
Chain(rs) ==
  IF rs = <<>> THEN Yielded(<<>>)
  ELSE IF Head(rs).raised THEN Head(rs)
  ELSE LET rest == Chain(Tail(rs))
       IN [tuples |-> Head(rs).tuples \o rest.tuples, raised |-> rest.raised]

\* the empty dict, default of "self.provider_references.get(provider_ref, {})"
EmptyDict == [k \in {} |-> JNull]

\* TiCMRFParser._create_rate_record called with all its arguments
\* (underscore dropped: an identifier cannot start with one here)
create_rate_record_tuple(billing_code, negotiated_rate, provider_info, payer) ==
  Yielded(<<[billing_code |-> billing_code,
             negotiated_rate |-> JNum(float(negotiated_rate)),
             provider_npi |-> Get(provider_info, "npi"),
             provider_name |-> Get(provider_info, "provider_group_name"),
             provider_tin |-> IF ~Falsy(Get(provider_info, "tin"))
                              THEN Get(provider_info.tin, "value")
                              ELSE JNull,
             payer |-> JStr(payer)]>>)

\* the "generic record" calls of _create_rate_record: they leave out the
\* required arguments negotiated_type, expiration_date and provider_info,
\* which is a TypeError
create_generic_record(billing_code, negotiated_rate, payer) == Raised(<<>>)

\* parse_negotiated_rates: one provider_group of a price
parse_provider_group(billing_code, negotiated_rate, provider_group, payer) ==
  IF "npi" \in DOMAIN provider_group \/ "tin" \in DOMAIN provider_group
  THEN create_rate_record_tuple(billing_code, negotiated_rate, provider_group, payer)
  ELSE IF "providers" \in DOMAIN provider_group
  THEN Chain([k \in 1..Len(provider_group.providers.list) |->
                create_rate_record_tuple(billing_code, negotiated_rate,
                                         provider_group.providers.list[k], payer)])
  ELSE create_generic_record(billing_code, negotiated_rate, payer)

parse_price_always_raises(billing_code, rate_group, price_item, references, payer) ==
  Raised(<<>>)

\* parse_negotiated_rates: one price_item of a rate group
parse_price(billing_code, rate_group, price_item, references, payer) ==
  LET negotiated_rate == Get(price_item, "negotiated_rate")
      provider_refs == IF "provider_references" \in DOMAIN rate_group
                       THEN rate_group.provider_references.list ELSE <<>>
      provider_groups == IF "provider_groups" \in DOMAIN rate_group
                         THEN rate_group.provider_groups.list ELSE <<>>
  IN IF negotiated_rate = JNull THEN Yielded(<<>>)
     ELSE IF provider_refs # <<>>
     THEN Chain([k \in 1..Len(provider_refs) |->
                   create_rate_record_tuple(
                     billing_code, negotiated_rate,
                     IF provider_refs[k] \in DOMAIN references
                     THEN references[provider_refs[k]] ELSE EmptyDict,
                     payer)])
     ELSE IF provider_groups # <<>>
     THEN Chain([k \in 1..Len(provider_groups) |->
                   parse_provider_group(billing_code, negotiated_rate,
                                        provider_groups[k], payer)])
     ELSE create_generic_record(billing_code, negotiated_rate, payer)

\* TiCMRFParser.parse_negotiated_rates
parse_negotiated_rates(in_network_item, references, payer) ==
  LET billing_code == Get(in_network_item, "billing_code")
      negotiated_rates == IF "negotiated_rates" \in DOMAIN in_network_item
                          THEN in_network_item.negotiated_rates.list ELSE <<>>
      prices(g) == IF "negotiated_prices" \in DOMAIN g
                   THEN g.negotiated_prices.list ELSE <<>>
  IN Chain([i \in 1..Len(negotiated_rates) |->
              Chain([j \in 1..Len(prices(negotiated_rates[i])) |->
                       parse_price(billing_code, negotiated_rates[i],
                                   prices(negotiated_rates[i])[j], references, payer)])])

\* stream_parse_enhanced once the body is fetched and decoded into data (a
\* dict): the tuples of the in_network items, nothing for the other shapes
stream_parse_enhanced(data, references, payer) ==
  IF "in_network" \in DOMAIN data
  THEN Chain([i \in 1..Len(data.in_network.list) |->
                parse_negotiated_rates(data.in_network.list[i], references, payer)])
  ELSE Yielded(<<>>)

\* most in_network items of a file
MaxItems == 2

\* provider descriptions
Provider(npi, tin) == [npi |-> JList(<<JStr(npi)>>), tin |-> [type |-> JStr("ein"), value |-> JStr(tin)]]

\* the price entries, the price lists and the provider attributions a rate
\* group is built from
PriceItems ==
  [one |-> [negotiated_rate |-> JNum(1), billing_class |-> JStr("professional")],
   two |-> [negotiated_rate |-> JStr("2.0"), billing_class |-> JStr("professional")],
   null |-> [negotiated_rate |-> JNull, billing_class |-> JStr("professional")]]

PriceLists ==
  {<<PriceItems.one>>, <<PriceItems.null>>, <<PriceItems.one, PriceItems.null>>,
   <<PriceItems.null, PriceItems.two>>, <<PriceItems.one, PriceItems.two>>}

Attributions ==
  {[provider_references |-> JList(<<1, 2>>)],
   [provider_groups |-> JList(<<Provider("n1", "t1")>>)],
   [provider_groups |-> JList(<<[providers |-> JList(<<Provider("n1", "t1"),
                                                        Provider("n2", "t1")>>)]>>)],
   [provider_groups |-> JList(<<Provider("n2", "t2"),
                                [provider_group_id |-> JNum(7)]>>)],
   [negotiation_arrangement |-> JStr("ffs")]}

RateGroups ==
  {("negotiated_prices" :> JList(ps)) @@ a : ps \in PriceLists, a \in Attributions}

InNetworkItems ==
  {[billing_code |-> JStr("99213"), negotiated_rates |-> JList(<<g>>)] : g \in RateGroups}
  \cup
  {[billing_code |-> JStr("70450"),
    negotiated_rates |-> JList(<<
      [negotiated_prices |-> JList(<<PriceItems.null, PriceItems.one>>),
       provider_groups |-> JList(<<Provider("n1", "t1")>>)],
      [negotiated_prices |-> JList(<<PriceItems.two>>),
       provider_references |-> JList(<<1>>)]>>)],
   [billing_code |-> JStr("70450"), description |-> JStr("no rates")]}

\* the decoded bodies: files of the standard shape, and a provider
\* reference file
MrfBodies ==
  {[in_network |-> JList(items)] : items \in SeqsUpTo(InNetworkItems, MaxItems)}
  \cup {[provider_references |-> JList(<<Provider("n1", "t1")>>)]}

\* parser.provider_references when the file is parsed
ProviderReferences == (1 :> Provider("n1", "t1"))

ParseCalls == {[op |-> "parse", data |-> d, done |-> FALSE] : d \in MrfBodies}

\* stream_parse_enhanced runs to its end
Parse ==
  /\ unit.op = "parse" /\ ~unit.done
  /\ unit' = [op |-> "parse", data |-> unit.data, done |-> TRUE,
              result |-> stream_parse_enhanced(unit.data, ProviderReferences, "PAYER1")]
  /\ UNCHANGED pipeline_vars

(* ----------------------- the fetcher and resolver ---------------------- *)
\* stop=stop_after_attempt(3)
stop_after_attempt == 3

\* lines 67-71: the location of the first provider_references entry of the
\* structure that has one (JNull: the key is not set)
last_provider_reference(structure) ==
  IF "provider_references" \notin DOMAIN structure THEN JNull
  ELSE LET refs == structure.provider_references.list
           idx == {k \in 1..Len(refs) : "location" \in DOMAIN refs[k]}
       IN IF idx = {} THEN JNull
          ELSE refs[CHOOSE k \in idx : \A m \in idx : m <= k].location

first_provider_reference(structure) ==
  IF "provider_references" \notin DOMAIN structure THEN JNull
  ELSE LET refs == structure.provider_references.list
           idx == {k \in 1..Len(refs) : "location" \in DOMAIN refs[k]}
       IN IF idx = {} THEN JNull
          ELSE refs[CHOOSE k \in idx : \A m \in idx : k <= m].location

\* mrf_info; i and j are the enumerate() indexes, from 0
mrf_info(url, type, i, j) ==
  [url |-> url, type |-> type, reporting_structure_index |-> i, file_index |-> j]

\* the positions, in order, of the entries of list that have key
Having(list, key) ==
  SelectSeq([j \in 1..Len(list) |-> j], LAMBDA j : key \in DOMAIN list[j])

\* lines 41-89: the descriptors of structure number i
structure_descriptors(i, structure) ==
  LET files == IF "in_network_files" \in DOMAIN structure
               THEN structure.in_network_files.list ELSE <<>>
      located == Having(files, "location")
      ref == first_provider_reference(structure)
      in_network == [n \in 1..Len(located) |->
                       LET info == mrf_info(files[located[n]].location, "in_network_rates",
                                            i, located[n] - 1)
                       IN IF ref = JNull THEN info
                          ELSE ("provider_reference_url" :> ref) @@ info]
      allowed == IF "allowed_amount_file" \in DOMAIN structure
                    /\ "location" \in DOMAIN structure.allowed_amount_file
                 THEN <<mrf_info(structure.allowed_amount_file.location,
                                 "allowed_amounts", i, 0)>>
                 ELSE <<>>
  IN in_network \o allowed

\* list_mrf_blobs_enhanced after "data = resp.json()": the descriptors, or
\* ValueError for a body that is no dict or has none of the accepted keys
index_descriptors(data) ==
  IF "list" \in DOMAIN data THEN [raised |-> TRUE, mrfs |-> <<>>]
  ELSE IF "reporting_structure" \in DOMAIN data
  THEN [raised |-> FALSE,
        mrfs |-> Concat([i \in 1..Len(data.reporting_structure.list) |->
                           structure_descriptors(i - 1, data.reporting_structure.list[i])])]
  ELSE IF "blobs" \in DOMAIN data
  THEN LET blobs == data.blobs.list
           with_url == Having(blobs, "url")
       IN [raised |-> FALSE,
           mrfs |-> [n \in 1..Len(with_url) |->
                       mrf_info(blobs[with_url[n]].url, "unknown", 0, with_url[n] - 1)]]
  ELSE IF "in_network_files" \in DOMAIN data
  THEN LET files == data.in_network_files.list
           located == Having(files, "location")
       IN [raised |-> FALSE,
           mrfs |-> [n \in 1..Len(located) |->
                       mrf_info(files[located[n]].location, "in_network_rates",
                                0, located[n] - 1)]]
  ELSE [raised |-> TRUE, mrfs |-> <<>>]

StopsAfterFour(attempt_number) == attempt_number >= stop_after_attempt + 1

\* tenacity: after a failed attempt, stop (and reraise) or wait and retry
Stops(attempt_number) == attempt_number >= stop_after_attempt

\* the retry decorator around one more attempt of a call: the attempt gave
\* outcome (Ok or the exception) and, when Ok, the value result
retry(call, outcome, result) ==
  LET attempts == Append(call.attempts, outcome)
  IN IF outcome.error = "none"
     THEN [call EXCEPT !.attempts = attempts, !.status = "returned", !.result = result]
     ELSE IF Stops(Len(attempts))
     THEN [call EXCEPT !.attempts = attempts, !.status = "raised"]
     ELSE [call EXCEPT !.attempts = attempts]

\* what requests.get and raise_for_status give: a status code (0: no
\* response, the connection failed)
Responses == {200, 404, 429, 500, 0}

\* the outcome of an attempt: no exception, or the exception raised
Ok == [error |-> "none", status |-> 200]
HTTPError(status) == [error |-> "HTTPError", status |-> status]
ConnectionError == [error |-> "ConnectionError", status |-> 0]
ValueError == [error |-> "ValueError", status |-> 200]

\* requests.get followed by resp.raise_for_status()
raise_for_status(resp) ==
  IF resp = 0 THEN ConnectionError
  ELSE IF resp >= 400 THEN HTTPError(resp)
  ELSE Ok

\* most reporting structures of an index
MaxStructures == 2

\* the pieces of a reporting structure
InNetworkFileLists ==
  {JList(<<[location |-> JStr("u1")], [location |-> JStr("u2")]>>),
   JList(<<[description |-> JStr("no location")], [location |-> JStr("u3")]>>)}

ProviderReferenceLists ==
  {JList(<<[provider_group_id |-> JNum(1)], [location |-> JStr("r2")]>>),
   JList(<<[location |-> JStr("r1")], [location |-> JStr("r2")]>>)}

ReportingStructures ==
  Dicts([plan_name |-> JStr("plan")],
        [in_network_files |-> InNetworkFileLists,
         provider_references |-> ProviderReferenceLists,
         allowed_amount_file |-> {[location |-> JStr("a1")]}])

\* the index bodies a payer can serve
IndexBodies ==
  {[reporting_structure |-> JList(ss)] : ss \in SeqsUpTo(ReportingStructures, MaxStructures)}
  \cup {[blobs |-> JList(<<[url |-> JStr("b1")], [name |-> JStr("no url")]>>)],
        [in_network_files |-> JList(<<[location |-> JStr("u1")]>>)],
        [version |-> JStr("1.0")],
        JList(<<>>)}

ListCalls ==
  {[op |-> "list_mrf_blobs_enhanced", data |-> d, attempts |-> <<>>,
    status |-> "running", result |-> <<>>] : d \in IndexBodies}

FetchCalls ==
  {[op |-> "fetch_url", attempts |-> <<>>, status |-> "running", result |-> <<>>]}

\* one attempt of list_mrf_blobs_enhanced under its retry decorator
ListAttempt(resp) ==
  /\ unit.op = "list_mrf_blobs_enhanced"
  /\ unit.status = "running"
  /\ LET http == raise_for_status(resp)
         parsed == index_descriptors(unit.data)
         outcome == IF http # Ok THEN http
                    ELSE IF parsed.raised THEN ValueError ELSE Ok
     IN unit' = retry(unit, outcome, parsed.mrfs)
  /\ UNCHANGED pipeline_vars

\* one attempt of fetch_url under its retry decorator
FetchAttempt(resp) ==
  /\ unit.op = "fetch_url"
  /\ unit.status = "running"
  /\ unit' = retry(unit, raise_for_status(resp), <<"content">>)
  /\ UNCHANGED pipeline_vars

(* --------------------------- the payer handlers ------------------------ *)
\* d[k] = v, d.pop(k), isinstance(v, str), isinstance(v, list)
Put(d, k, v) == (k :> v) @@ d
Pop(d, k) == [x \in DOMAIN d \ {k} |-> d[x]]
IsStr(v) == "str" \in DOMAIN v
IsList(v) == "list" \in DOMAIN v

\* "for x in l: ..." changing each element of the list l in place
MapList(l, F(_)) == JList([i \in 1..Len(l.list) |-> F(l.list[i])])

\* "if k in d: d[k] = F(d[k])"
OnKey(d, k, F(_)) == IF k \in DOMAIN d THEN Put(d, k, F(d[k])) ELSE d

\* str.lower() on the strings the inputs use
str_lower(s) ==
  CASE s = "Professional" -> "professional"
    [] s = "Negotiated" -> "negotiated"
    [] s = "FFS" -> "ffs"
    [] OTHER -> s

\* the strings int() accepts among those the inputs use
IntStrings == {"1"}

\* "if 'npi' in provider and isinstance(provider['npi'], str):
\*      try: provider['npi'] = int(provider['npi']) except ValueError: pass"
npi_to_int(provider) ==
  IF "npi" \in DOMAIN provider /\ IsStr(provider.npi) /\ provider.npi.str \in IntStrings
  THEN Put(provider, "npi", JNum(ParseFloat(provider.npi.str)))
  ELSE provider

\* "if 'tin' in provider_group: if isinstance(tin, str): ... = {type, value}"
tin_to_object(provider_group) ==
  IF "tin" \in DOMAIN provider_group /\ IsStr(provider_group.tin)
  THEN Put(provider_group, "tin", [type |-> JStr("ein"), value |-> provider_group.tin])
  ELSE provider_group

\* "if k in d: d[new] = d.pop(k)"
Rename(d, k, new) == IF k \in DOMAIN d THEN Put(Pop(d, k), new, d[k]) ELSE d

\* "if 'service_code' in price and isinstance(price['service_code'], str)"
service_code_to_list(price) ==
  IF "service_code" \in DOMAIN price /\ IsStr(price.service_code)
  THEN Put(price, "service_code", JList(<<price.service_code>>))
  ELSE price

\* "if 'billing_class' in price: price['billing_class'] = ....lower()"
lower_key(d, k) ==
  IF k \in DOMAIN d /\ IsStr(d[k]) THEN Put(d, k, JStr(str_lower(d[k].str))) ELSE d

\* AetnaHandler._normalize_aetna_provider_group
normalize_aetna_provider_group(provider_group) ==
  LET provider(p) == npi_to_int(Rename(p, "cvs_location_id", "location_id"))
      providers(l) == MapList(l, provider)
  IN OnKey(tin_to_object(provider_group), "providers", providers)

\* AetnaHandler._normalize_aetna_hybrid_providers
normalize_aetna_hybrid_providers(rate_group) ==
  IF "provider_groups" \notin DOMAIN rate_group THEN rate_group
  ELSE
    LET groups == rate_group.provider_groups.list
        refs == IF "provider_references" \in DOMAIN rate_group
                THEN rate_group.provider_references.list ELSE <<>>
        with_ref(i, g) == IF "npi" \notin DOMAIN g /\ i <= Len(refs)
                          THEN Put(g, "provider_reference_id", refs[i]) ELSE g
        with_providers(g) ==
          IF "providers" \notin DOMAIN g /\ "npi" \in DOMAIN g
          THEN Put(g, "providers",
                   JList(<<[npi |-> g.npi,
                            provider_name |-> IF "provider_name" \in DOMAIN g
                                              THEN g.provider_name ELSE JStr("")]>>))
          ELSE g
        merged(i) == IF groups # <<>> /\ refs # <<>>
                     THEN with_providers(with_ref(i, groups[i]))
                     ELSE groups[i]
    IN Put(rate_group, "provider_groups",
           JList([i \in 1..Len(groups) |-> normalize_aetna_provider_group(merged(i))]))

\* AetnaHandler._normalize_aetna_pricing
normalize_aetna_pricing(rate_group) ==
  LET price(p) == service_code_to_list(
                    Rename(lower_key(p, "billing_class"), "cvs_pricing_tier", "pricing_tier"))
      prices(l) == MapList(l, price)
  IN OnKey(rate_group, "negotiated_prices", prices)

\* AetnaHandler._normalize_aetna_metadata ("florida" in the description of
\* no input)
normalize_aetna_metadata(record) == Rename(record, "state_specific_id", "regional_id")

\* AetnaHandler.parse_in_network: the record, changed in place
aetna_parse_in_network(record) ==
  LET rate_group(g) == normalize_aetna_pricing(normalize_aetna_hybrid_providers(g))
      rate_groups(l) == MapList(l, rate_group)
  IN normalize_aetna_metadata(OnKey(record, "negotiated_rates", rate_groups))

\* CenteneHandler._normalize_centene_provider_structure
normalize_centene_provider_structure(rate_group) ==
  LET as_list(v) == IF IsList(v) THEN v ELSE JList(<<v>>)
  IN OnKey(OnKey(rate_group, "provider_references", as_list), "provider_groups", as_list)

\* CenteneHandler._normalize_centene_pricing
normalize_centene_pricing(rate_group) ==
  LET rate(v) == IF v = JNull THEN v ELSE JNum(float(v))
      code(v) == IF IsStr(v) THEN JList(<<v>>) ELSE IF IsList(v) THEN v ELSE JList(<<>>)
      price(p) == OnKey(OnKey(lower_key(OnKey(p, "negotiated_rate", rate), "negotiated_type"),
                              "service_code", code),
                        "billing_code_modifier", code)
      prices(l) == MapList(l, price)
  IN OnKey(rate_group, "negotiated_prices", prices)

\* CenteneHandler._normalize_centene_metadata (no input has a
\* billing_code_type_version to strip)
normalize_centene_metadata(rate_group) == lower_key(rate_group, "negotiation_arrangement")

\* CenteneHandler.parse_in_network: the record, changed in place
centene_parse_in_network(record) ==
  LET rate_group(g) == normalize_centene_metadata(
                         normalize_centene_pricing(normalize_centene_provider_structure(g)))
      rate_groups(l) == MapList(l, rate_group)
  IN OnKey(record, "negotiated_rates", rate_groups)

\* HorizonHandler._parse_horizon_region: region.split("_", 1)
parse_horizon_region(region) ==
  CASE region = "NJ_NORTH" ->
         [state |-> JStr("NJ"), region |-> JStr("north"), full_code |-> JStr(region)]
    [] OTHER ->
         [state |-> JStr(region), region |-> JStr("statewide"), full_code |-> JStr(region)]

\* HorizonHandler._normalize_horizon_geographic_data
normalize_horizon_geographic_data(rate_group) ==
  LET geography(p) ==
        IF "geographic_region" \in DOMAIN p
        THEN Put(Pop(p, "geographic_region"), "service_geography",
                 parse_horizon_region(p.geographic_region.str))
        ELSE p
      price(p) == lower_key(geography(p), "billing_class")
      prices(l) == MapList(l, price)
  IN OnKey(rate_group, "negotiated_prices", prices)

\* HorizonHandler._normalize_horizon_provider_groups
normalize_horizon_provider_groups(rate_group) ==
  LET providers(l) == MapList(l, npi_to_int)
      group(g) == OnKey(tin_to_object(g), "providers", providers)
      groups(l) == MapList(l, group)
  IN OnKey(rate_group, "provider_groups", groups)

\* HorizonHandler.parse_in_network: the record, changed in place
horizon_parse_in_network(record) ==
  LET rate_group(g) == normalize_horizon_provider_groups(normalize_horizon_geographic_data(g))
      rate_groups(l) == MapList(l, rate_group)
  IN OnKey(record, "negotiated_rates", rate_groups)

\* dict.get(k, default)
GetOr(d, k, default) == IF k \in DOMAIN d THEN d[k] ELSE default

\* Bcbs_FlHandler._create_base_record
create_base_record(record) ==
  Pop(Pop(record, "negotiated_rates"), "provider_references")
  @@ [billing_code |-> GetOr(record, "billing_code", JStr("")),
      billing_code_type |-> GetOr(record, "billing_code_type", JStr("")),
      description |-> GetOr(record, "description", JStr("")),
      negotiation_arrangement |-> GetOr(record, "negotiation_arrangement", JStr("")),
      name |-> GetOr(record, "name", JStr("")),
      billing_code_type_version |-> GetOr(record, "billing_code_type_version", JStr(""))]

\* Bcbs_FlHandler._extract_price_fields
extract_price_fields(price) ==
  [negotiated_type |-> GetOr(price, "negotiated_type", JStr("")),
   negotiated_rate |-> GetOr(price, "negotiated_rate", JNum(0)),
   expiration_date |-> GetOr(price, "expiration_date", JStr("")),
   billing_class |-> GetOr(price, "billing_class", JStr("")),
   service_code |-> GetOr(price, "service_code", JStr("")),
   billing_code_modifier |-> GetOr(price, "billing_code_modifier", JStr("")),
   service_codes |-> GetOr(price, "service_codes", JList(<<>>))]

\* Bcbs_FlHandler.parse_in_network: new records, one per rate group
bcbs_fl_parse_in_network(record) ==
  LET negotiated_rates == GetOr(record, "negotiated_rates", JList(<<>>)).list
      of_group(g) ==
        LET base == create_base_record(record)
            refs == GetOr(g, "provider_references", JList(<<>>))
            with_refs == IF refs.list # <<>> THEN Put(base, "provider_references", refs)
                         ELSE base
            prices == GetOr(g, "negotiated_prices", JList(<<>>)).list
        IN IF prices # <<>> THEN extract_price_fields(prices[1]) @@ with_refs
           ELSE with_refs
  IN IF negotiated_rates = <<>> THEN <<record>>
     ELSE [i \in 1..Len(negotiated_rates) |-> of_group(negotiated_rates[i])]

\* every handler class of the package
AllHandlerClasses ==
  {"PayerHandler", "CenteneHandler", "AetnaHandler", "HorizonHandler",
   "Bcbs_FlHandler", "Bcbs_IlHandler"}

\* what a call handler.parse_in_network(record) leaves: the list returned
\* (items), whether it raised, and the caller's record after the call
Adapted(items, record) == [items |-> items, raised |-> FALSE, record |-> record]

\* parse_in_network of an instance of cls.  The base class returns
\* [record]; Centene, Aetna and Horizon change the record in place and return
\* [record]; BCBS-FL builds new records; BCBS-IL reads the undefined name
\* "patterns" and raises NameError
parse_in_network(cls, record) ==
  CASE cls = "PayerHandler" -> Adapted(<<record>>, record)
    [] cls = "CenteneHandler" ->
         Adapted(<<centene_parse_in_network(record)>>, centene_parse_in_network(record))
    [] cls = "AetnaHandler" ->
         Adapted(<<aetna_parse_in_network(record)>>, aetna_parse_in_network(record))
    [] cls = "HorizonHandler" ->
         Adapted(<<horizon_parse_in_network(record)>>, horizon_parse_in_network(record))
    [] cls = "Bcbs_FlHandler" -> Adapted(bcbs_fl_parse_in_network(record), record)
    [] OTHER -> [items |-> <<>>, raised |-> TRUE, record |-> record]

\* the in-network items offered to the handlers: a billing code, one rate
\* group with one provider group and one price
AdaptPrices ==
  Dicts([negotiated_type |-> JStr("negotiated")],
        [negotiated_rate |-> {JNum(1), JStr("2.0")},
         billing_class |-> {JStr("professional"), JStr("Professional")},
         service_code |-> {JStr("11"), JList(<<JStr("11")>>)},
         geographic_region |-> {JStr("NJ_NORTH")}])

AdaptProviderGroups ==
  Dicts([npi |-> JList(<<JNum(1)>>)],
        [tin |-> {JStr("t1"), [type |-> JStr("ein"), value |-> JStr("t1")]}])
  \cup {[providers |-> JList(<<[npi |-> JStr("1")]>>)]}

AdaptRateGroups ==
  {r @@ [provider_groups |-> JList(<<g>>), negotiated_prices |-> JList(<<p>>)] :
     g \in AdaptProviderGroups, p \in AdaptPrices,
     r \in Dicts([negotiation_arrangement |-> JStr("ffs")],
                 [provider_references |-> {JList(<<JNum(1)>>)}])}

AdaptItems ==
  {m @@ [negotiated_rates |-> JList(<<g>>)] :
     g \in AdaptRateGroups,
     m \in Dicts([billing_code |-> JStr("99213"), billing_code_type |-> JStr("CPT")],
                 [state_specific_id |-> {JStr("FL-1")}])}

AdaptCalls ==
  {[op |-> "adapt", cls |-> c, record |-> r, done |-> FALSE] :
     c \in AllHandlerClasses, r \in AdaptItems}

\* handler.parse_in_network(record) is called on an instance of unit.cls
Adapt ==
  /\ unit.op = "adapt" /\ ~unit.done
  /\ LET r == parse_in_network(unit.cls, unit.record)
     IN unit' = [op |-> "adapt", cls |-> unit.cls, record |-> unit.record, done |-> TRUE,
                 items |-> r.items, raised |-> r.raised, after |-> r.record]
  /\ UNCHANGED pipeline_vars

(* -------------------------- the handler registry ----------------------- *)
\* most register_handler calls in a run of the registry
MaxRegistrations == 2

\* payer names, as sequences of characters
PayerNames ==
  {<<"a">>, <<"A">>, <<"b">>, <<"a", "b">>, <<"A", "b">>, <<"A", "B">>, <<"a", "_">>}

\* the handler classes: the base class and two subclasses
HandlerClasses == {"PayerHandler", "AetnaHandler", "HorizonHandler"}

lower_identity(name) == name

\* str.lower(): each upper-case letter becomes its lower-case letter
lower(name) ==
  [i \in 1..Len(name) |->
     CASE name[i] = "A" -> "a"
       [] name[i] = "B" -> "b"
       [] OTHER -> name[i]]

\* the record the lookups try the handler on
SampleRecord == [billing_code |-> JStr("99213"), billing_code_type |-> JStr("CPT")]

\* _handler_registry = {}
EmptyRegistry == [k \in {} |-> "PayerHandler"]

\* register_handler(name)(cls): _handler_registry[name.lower()] = cls
register_handler(registry, name, cls) == (lower(name) :> cls) @@ registry

\* get_handler(name): the class of _handler_registry.get(name.lower(),
\* PayerHandler), of which an instance is returned
get_handler(registry, name) ==
  IF lower(name) \in DOMAIN registry THEN registry[lower(name)] ELSE "PayerHandler"

NoLookup == [name |-> <<>>, cls |-> "none", adapted |-> <<>>]

RegistryCalls ==
  {[op |-> "registry", registry |-> EmptyRegistry, log |-> <<>>, lookup |-> NoLookup]}

\* a class is decorated with @register_handler(name)
Register(name, cls) ==
  /\ unit.op = "registry"
  /\ Len(unit.log) < MaxRegistrations
  /\ unit' = [unit EXCEPT !.registry = register_handler(@, name, cls),
                          !.log = Append(@, [name |-> name, cls |-> cls]),
                          !.lookup = NoLookup]
  /\ UNCHANGED pipeline_vars

\* get_handler(name) is called and the handler tried on a record
GetHandler(name) ==
  /\ unit.op = "registry"
  /\ LET cls == get_handler(unit.registry, name)
     IN unit' = [unit EXCEPT !.lookup = [name |-> name, cls |-> cls,
                                         adapted |-> parse_in_network(cls, SampleRecord).items]]
  /\ UNCHANGED pipeline_vars

(* ---------------------------- ParquetWriter ---------------------------- *)
\* most write() calls on one writer, and the largest batch_size tried
MaxWrites == 4
MaxBatchSize == 3

\* the records written, told apart by their cpt_code
WriterRecords == {[cpt_code |-> JStr("99201")], [cpt_code |-> JStr("99202")]}

\* the output paths tried: one with a suffix, one without
OutputPaths == {[parent |-> "output", stem |-> "rates", suffix |-> ".parquet"],
                [parent |-> "tmp", stem |-> "output", suffix |-> ""]}

RECURSIVE Digits(_)
\* the decimal digits of n
Digits(n) == IF n < 10 THEN <<n>> ELSE Append(Digits(n \div 10), n % 10)

\* f"{n:04d}": the digits of n, padded with zeros to four at least
format_04d(n) == [i \in 1..(4 - Len(Digits(n))) |-> 0] \o Digits(n)

\* _write_batch: the path of the batch file, as the parts of its name
batch_path(output_path, file_counter) ==
  IF file_counter = 0
  THEN [parent |-> output_path.parent,
        name |-> <<output_path.stem, output_path.suffix>>]
  ELSE [parent |-> output_path.parent,
        name |-> <<output_path.stem, "_">> \o format_04d(file_counter)
                   \o <<output_path.suffix>>]

\* ParquetWriter.__init__
ParquetWriter(output_path, batch_size) ==
  [op |-> "writer", output_path |-> output_path, batch_size |-> batch_size,
   records |-> <<>>, file_counter |-> 0,
   files |-> <<>>,      \* history: the pq.write_table calls, in order
   written |-> <<>>,    \* history: the records passed to write()
   closed |-> FALSE]

write_batch_same_file(w) ==
  IF w.records = <<>> THEN w
  ELSE [w EXCEPT !.files = Append(@, [path |-> batch_path(w.output_path, 0),
                                      records |-> w.records]),
                 !.records = <<>>]

\* ParquetWriter._write_batch
write_batch(w) ==
  IF w.records = <<>> THEN w
  ELSE [w EXCEPT !.files = Append(@, [path |-> batch_path(w.output_path, w.file_counter),
                                      records |-> w.records]),
                 !.records = <<>>,
                 !.file_counter = @ + 1]

\* ParquetWriter.write
write(w, record) ==
  LET w1 == [w EXCEPT !.records = Append(@, record)]
  IN IF Len(w1.records) >= w1.batch_size THEN write_batch(w1) ELSE w1

\* ParquetWriter.close
close(w) == IF w.records # <<>> THEN write_batch(w) ELSE w

\* pq.read_table(path): what the last pq.write_table to path left there
read_table(files, path) ==
  LET at == {i \in 1..Len(files) : files[i].path = path}
  IN IF at = {} THEN <<>>
     ELSE files[CHOOSE i \in at : \A j \in at : j <= i].records

WriterCalls ==
  {ParquetWriter(p, b) : p \in OutputPaths, b \in 1..MaxBatchSize}

\* one write() call
WriterWrite(record) ==
  /\ unit.op = "writer" /\ ~unit.closed
  /\ Len(unit.written) < MaxWrites
  /\ unit' = [write(unit, record) EXCEPT !.written = Append(@, record)]
  /\ UNCHANGED pipeline_vars

\* the close() call that ends the writes
WriterClose ==
  /\ unit.op = "writer" /\ ~unit.closed
  /\ unit' = [close(unit) EXCEPT !.closed = TRUE]
  /\ UNCHANGED pipeline_vars

(* ------------------------------ identities ----------------------------- *)
\* the circumstances of a run that are not content: the url the file was
\* fetched from and the value of datetime.now() when the rows are built
Runs == [url : {1, 2}, now : {1, 2}]

\* "created_at": datetime.now(timezone.utc) (and extraction_timestamp,
\* updated_at) of the three record builders
stamped(record, now) == ("created_at" :> now) @@ record

\* the rows process_mrf_file_enhanced builds for the tuple raw in a run
rows_of(raw, payer, run) ==
  LET normalized == normalize_tic_record(raw, cpt_whitelist, payer)
      file_info == [url |-> run.url, type |-> "in_network_rates"]
      providers == create_provider_records(normalized)
  IN IF normalized = NoRecord THEN NoRecord
     ELSE [rate |-> stamped(create_rate_record(payer_uuid(payer), normalized, file_info),
                            run.now),
           organization |-> stamped(create_organization_record(normalized), run.now),
           providers |-> [i \in 1..Len(providers) |-> stamped(providers[i], run.now)]]

IdentifyCalls ==
  {[op |-> "identify", raw |-> raw, payer |-> payer, runs |-> <<a, b>>, done |-> FALSE] :
     raw \in RawTuples, payer \in 1..NumPayers, a \in Runs, b \in Runs}

\* the same tuple of the same payer goes through two runs
Identify ==
  /\ unit.op = "identify" /\ ~unit.done
  /\ unit' = [op |-> "identify", raw |-> unit.raw, payer |-> unit.payer,
              runs |-> unit.runs, done |-> TRUE,
              rows |-> [i \in 1..2 |-> rows_of(unit.raw, unit.payer, unit.runs[i])]]
  /\ UNCHANGED pipeline_vars

(* ----------------------- provider reference files ---------------------- *)
\* an entry of a provider reference file: its id and the provider
ReferenceEntry(id, npi, tin) == ("provider_group_id" :> JNum(id)) @@ Provider(npi, tin)

\* the decoded reference files: ids in table order or not, an empty table,
\* and a body without provider_references
ReferenceFiles ==
  {[provider_references |-> JList(es)] :
     es \in {<<ReferenceEntry(0, "n1", "t1"), ReferenceEntry(1, "n2", "t2")>>,
             <<ReferenceEntry(1, "n1", "t1")>>,
             <<ReferenceEntry(5, "n2", "t2"), ReferenceEntry(0, "n1", "t1")>>,
             <<>>}}
  \cup {[in_network |-> JList(<<>>)]}

\* the provider_references lists of the rate group
ReferenceIdLists == {<<0>>, <<1>>, <<5>>, <<0, 1>>, <<5, 7>>}

\* TiCMRFParser.load_provider_references once the file is fetched and
\* decoded into data: "for i, provider in enumerate(...): lookup[i] = provider"
load_provider_references(data) ==
  IF "provider_references" \in DOMAIN data
  THEN [i \in 0..(Len(data.provider_references.list) - 1) |->
          data.provider_references.list[i + 1]]
  ELSE EmptyDict

ResolveCalls ==
  {[op |-> "resolve", file |-> f,
    item |-> [billing_code |-> JStr("99213"),
              negotiated_rates |-> JList(<<[negotiated_prices |-> JList(<<PriceItems.one>>),
                                            provider_references |-> JList(ids)]>>)],
    done |-> FALSE] : f \in ReferenceFiles, ids \in ReferenceIdLists}

\* stream_parse_enhanced with a provider_ref_url: the table is loaded, then
\* the item is parsed with it
Resolve ==
  /\ unit.op = "resolve" /\ ~unit.done
  /\ unit' = [op |-> "resolve", file |-> unit.file, item |-> unit.item, done |-> TRUE,
              result |-> parse_negotiated_rates(unit.item,
                                                load_provider_references(unit.file),
                                                "PAYER1")]
  /\ UNCHANGED pipeline_vars

(* ------------------- the handler in the streaming pass ----------------- *)
\* the positional arguments of the two calls of stream_parse_enhanced:
\* process_mrf_file_enhanced passes the handler, __main__ does not
PipelineArgs(handler) == <<"url", "PAYER1", "provider_reference_url", handler>>
MainArgs == <<"url", "PAYER1", "provider_reference_url">>

\* a call stream_parse_enhanced(*args): the function has the parameters
\* (url, payer, provider_ref_url=None), so any other number of positional
\* arguments is a TypeError; it never calls handler.parse_in_network
stream_parse_call(args, data, references) ==
  IF Len(args) < 2 \/ Len(args) > 3 THEN Raised(<<>>)
  ELSE stream_parse_enhanced(data, references, args[2])

\* in-network items the handlers and the parser both read
StreamItems ==
  {it \in AdaptItems :
     LET g == it.negotiated_rates.list[1]
         pg == g.provider_groups.list[1]
         p == g.negotiated_prices.list[1]
     IN /\ "provider_references" \notin DOMAIN g
        /\ "npi" \in DOMAIN pg
        /\ ("tin" \in DOMAIN pg => ~IsStr(pg.tin))
        /\ "negotiated_rate" \in DOMAIN p
        /\ "service_code" \notin DOMAIN p
        /\ "geographic_region" \notin DOMAIN p}

StreamCalls ==
  {[op |-> "stream", caller |-> c, cls |-> k, data |-> [in_network |-> JList(<<it>>)],
    done |-> FALSE] :
     c \in {"pipeline", "main"}, k \in AllHandlerClasses, it \in StreamItems}

\* the file is streamed by one of the two callers
Stream ==
  /\ unit.op = "stream" /\ ~unit.done
  /\ unit' = [op |-> "stream", caller |-> unit.caller, cls |-> unit.cls,
              data |-> unit.data, done |-> TRUE,
              result |-> stream_parse_call(IF unit.caller = "pipeline"
                                           THEN PipelineArgs(unit.cls) ELSE MainArgs,
                                           unit.data, EmptyDict)]
  /\ UNCHANGED pipeline_vars

InitUnits ==
  /\ IdlePipeline
  /\ unit \in ValidateCalls \cup NormalizeCalls \cup ParseCalls \cup ListCalls \cup FetchCalls
                \cup RegistryCalls \cup AdaptCalls \cup WriterCalls
                \cup IdentifyCalls \cup ResolveCalls \cup StreamCalls

NextUnits ==
  \/ Validate
  \/ Normalize
  \/ Renormalize
  \/ Parse
  \/ \E resp \in Responses : ListAttempt(resp)
  \/ \E resp \in Responses : FetchAttempt(resp)
  \/ \E name \in PayerNames, cls \in HandlerClasses : Register(name, cls)
  \/ \E name \in PayerNames : GetHandler(name)
  \/ Adapt
  \/ \E record \in WriterRecords : WriterWrite(record)
  \/ WriterClose
  \/ Identify
  \/ Resolve
  \/ Stream

SpecUnits == InitUnits /\ [][NextUnits]_vars

(* ------------------------- history operators --------------------------- *)
\* rows of table t handed to write_batches_to_s3 for the current file
Flushed(t) == Concat([i \in 1..Len(flushes) |-> flushes[i].batch[t]])

\* rows of table t that reached the sink for the current file
Sunk(t) ==
  Concat([i \in 1..Len(flushes) |->
            IF flushes[i].result[t] \in {"uploaded", "written"}
            THEN flushes[i].batch[t] ELSE <<>>])

\* rows of table t still in the batch buffer
Buffered(t) == Batches(rate_batch, org_batch, provider_batch)[t]

Distinct(seq, key(_)) ==
  \A i, j \in DOMAIN seq : i # j => key(seq[i]) # key(seq[j])

(* ------------------------------ claims --------------------------------- *)

\* C1: when the stream of a file fails part-way, the rows accumulated in the
\* three batches are still flushed before the file is marked failed: every
\* row appended for a failed file has been handed to a flush.
C1_PartialBatchesFlushed ==
  file_status = "failed" => \A t \in TableSet : Flushed(t) = appended[t]

\* C2: a failing file is marked failed, exactly it (files_failed counts the
\* failed files, failed_files lists their urls in order), and the loop goes
\* on: the files attempted are a prefix of rate_files in order, the loop
\* stands at the file after the last one attempted, and it is left only
\* when every file of rate_files was attempted.
C2_FileFailureIsolated ==
  LET failed == SelectSeq(file_log, LAMBDA e : e.status = "failed")
  IN /\ payer_stats.files_failed = Len(failed)
     /\ payer_stats.failed_files = [i \in 1..Len(failed) |-> failed[i].url]
     /\ Len(file_log) <= Len(rate_files)
     /\ \A i \in 1..Len(file_log) : file_log[i].url = rate_files[i].url
     /\ payer_stats.files_processed =
          Len(file_log) + (IF pc = "stream" THEN 1 ELSE 0)
     /\ (pc = "file" => Len(file_log) = file_idx - 1)
     /\ (pc = "stream" => Len(file_log) = file_idx - 1 /\ file_idx <= Len(rate_files))

C2_Witness ==
  /\ Len(file_log) = 2
  /\ file_log[1].status = "failed"
  /\ file_log[2].status = "succeeded"
  /\ payer_stats.files_failed = 1
  /\ pc = "file"
  /\ file_idx > Len(rate_files)

\* C3: a payer whose processing raises is recorded in stats.errors, every
\* configured payer is attempted in order whatever failed before, and the
\* run ends with the final statistics (unless, in local mode, writing the
\* aggregated tables or the statistics file itself raises).
C3_PayerFailureIsolated ==
  LET raised == SelectSeq(payer_log, LAMBDA e : e.status = "raised")
  IN /\ stats.errors = [i \in 1..Len(raised) |-> raised[i].payer]
     /\ \A i \in 1..Len(payer_log) : payer_log[i].payer = i
     /\ stats.payers_processed + Len(stats.errors) = Len(payer_log)
     /\ (pc \in {"report", "done"} => Len(payer_log) = NumPayers)
     /\ (pc = "done" => \/ run_status = "reported"
                        \/ /\ ~config.s3_bucket
                           /\ run_status \in {"aggregate_raised", "report_raised"})

C3_Witness ==
  /\ pc = "done"
  /\ run_status = "reported"
  /\ Len(payer_log) = NumPayers
  /\ payer_log[1].status = "raised"
  /\ payer_log[NumPayers].status = "returned"
  /\ stats.errors = <<1>>
  /\ stats.files_succeeded > 0

\* C4: within one file an organization_uuid is appended to the
\* organizations batches at most once, across all flushes of the file.
C4_OrganizationOncePerFile ==
  /\ Distinct(appended["organizations"], LAMBDA r : r.organization_uuid)
  /\ Distinct(Flushed("organizations") \o org_batch, LAMBDA r : r.organization_uuid)

C4_Witness ==
  /\ Len(flushes) = 2
  /\ flushes[1].batch["rates"][1].organization_uuid
       = flushes[2].batch["rates"][1].organization_uuid
  /\ Len(flushes[1].batch["organizations"]) = 1
  /\ flushes[2].batch["organizations"] = <<>>

\* C5: within one file a provider row for a given NPI is emitted once,
\* however many validated rate rows carry that NPI.
C5_ProviderOncePerFile ==
  Distinct(appended["providers"], LAMBDA r : r.npi)

\* C6: the batch index in the Parquet keys of one file increases from one
\* flush to the next, whatever the outcome of the uploads in between.
C6_BatchIndexIncreases ==
  config.s3_bucket =>
    \A i, j \in DOMAIN flushes :
      i < j => flushes[i].batch_number < flushes[j].batch_number

\* C7: when the stream of a file ends normally all three buffers are
\* drained: the rows appended are exactly the rows handed to the flushes, in
\* order, each once; while the file streams, the rows not yet handed to a
\* flush are exactly the buffered ones.
C7_BuffersDrained ==
  /\ (file_status = "succeeded" => \A t \in TableSet : appended[t] = Flushed(t))
  /\ (file_status = "streaming" =>
        \A t \in TableSet : appended[t] = Flushed(t) \o Buffered(t))

C7_Witness ==
  /\ file_status = "succeeded"
  /\ Len(flushes) = 2
  /\ ~flushes[1].tail
  /\ flushes[2].tail
  /\ Len(appended["rates"]) = 3

\* C8: a batch whose upload failed is not discarded: every row appended is
\* in the sink or still buffered.
C8_RowsKeptUntilUploaded ==
  (config.s3_bucket /\ file_status = "streaming") =>
    \A t \in TableSet : Len(appended[t]) = Len(Sunk(t)) + Len(Buffered(t))

\* C9: with S3, a flush offers every non-empty batch for upload whatever
\* the outcome of the uploads before it in the same flush, and no upload
\* outcome ends the file: the step that flushes leaves the file streaming
\* (or succeeded, for the final write), after a failed upload as well.
C9_UploadFailureIsolated ==
  [][(config.s3_bucket /\ Len(flushes') = Len(flushes) + 1) =>
       LET f == flushes'[Len(flushes')]
       IN /\ \A t \in TableSet :
               f.batch[t] # <<>> => f.result[t] \in {"uploaded", "failed"}
          /\ file_status' = IF f.tail THEN "succeeded" ELSE "streaming"
          /\ appended' = [t \in TableSet |-> Flushed(t) \o f.batch[t]]]_vars

C9_Witness ==
  /\ config.s3_bucket
  /\ Len(flushes) = 2
  /\ flushes[1].result["rates"] = "failed"
  /\ flushes[1].result["organizations"] = "uploaded"
  /\ flushes[1].result["providers"] = "failed"
  /\ flushes[2].result["rates"] = "uploaded"

\* C10: with max_records_per_file set (0 included) records_extracted never
\* exceeds it, and once it is reached the next step of the stream ends the
\* loop without counting or batching anything more.
C10_RecordLimitHonoured ==
  [][config.max_records_per_file # NoLimit =>
       /\ file_stats'.records_extracted <= config.max_records_per_file
       /\ (pc = "stream"
           /\ file_stats.records_extracted >= config.max_records_per_file)
          => /\ pc' = "file"
             /\ file_stats'.records_extracted = file_stats.records_extracted
             /\ appended' = appended]_vars

C10_Witness ==
  /\ config.max_records_per_file = 2
  /\ file_stats.records_extracted = 2
  /\ file_status = "succeeded"
  /\ budget.tuples = MaxTuples - 3

\* C11: when max_files_per_payer is set (0 included) at most that many
\* files of a payer are selected and processed, and the files are processed
\* in the order of the index.
C11_FileLimitHonoured ==
  config.max_files_per_payer # NoLimit =>
    /\ Len(rate_files) <= config.max_files_per_payer
    /\ payer_stats.files_processed <= config.max_files_per_payer
    /\ \A i, j \in DOMAIN file_log : i < j => file_log[i].url < file_log[j].url

\* C12: for every rate row given to the quality validator, if any of
\* service_code, negotiated_rate, payer_uuid, organization_uuid is missing or
\* empty the flags have is_validated = false and confidence_score <= 0.7; in
\* every case confidence_score lies in [0, 1] (scores are in tenths).
C12_RequiredFieldsScored ==
  (unit.op = "validate" /\ unit.done) =>
    LET r == unit.record
        q == unit.result
        missing == \/ r.service_code \in {"", None}
                   \/ r.negotiated_rate = 0
                   \/ r.payer_uuid = <<>>
                   \/ r.organization_uuid = <<>>
    IN /\ missing => (~q.is_validated /\ q.confidence_score <= 7)
       /\ q.confidence_score \in 0..10

C12_Witness ==
  /\ unit.op = "validate" /\ unit.done
  /\ unit.record.service_code = ""
  /\ unit.record.negotiated_rate = 10001
  /\ unit.record.npi_list = <<>>
  /\ ~unit.result.is_validated
  /\ unit.result.confidence_score = 4

C14_NormalizerIdempotent ==
  unit.op = "renormalize" => unit.again = unit.result

\* the provider attributions of a rate group as the format describes them:
\* its reference ids if any, else its provider groups (a group with direct
\* npi/tin, or each nested provider), else a single anonymous one
AttributionsOf(g) ==
  LET refs == IF "provider_references" \in DOMAIN g THEN g.provider_references.list ELSE <<>>
      groups == IF "provider_groups" \in DOMAIN g THEN g.provider_groups.list ELSE <<>>
  IN IF refs # <<>>
     THEN [k \in 1..Len(refs) |->
             IF refs[k] \in DOMAIN ProviderReferences
             THEN ProviderReferences[refs[k]] ELSE EmptyDict]
     ELSE IF groups # <<>>
     THEN Concat([k \in 1..Len(groups) |->
                    IF "npi" \in DOMAIN groups[k] \/ "tin" \in DOMAIN groups[k]
                    THEN <<groups[k]>>
                    ELSE IF "providers" \in DOMAIN groups[k]
                    THEN groups[k].providers.list
                    ELSE <<>>])
     ELSE <<EmptyDict>>

\* the tuples of a standard file, one per (item, rate group, price with a
\* rate, attribution), in document order
ExpectedTuples(data) ==
  LET items == data.in_network.list
      groupsOf(it) == IF "negotiated_rates" \in DOMAIN it THEN it.negotiated_rates.list ELSE <<>>
      pricesOf(g) == SelectSeq(g.negotiated_prices.list,
                               LAMBDA p : Get(p, "negotiated_rate") # JNull)
      ofPrice(it, g, p) ==
        [k \in 1..Len(AttributionsOf(g)) |->
           create_rate_record_tuple(Get(it, "billing_code"), p.negotiated_rate,
                                    AttributionsOf(g)[k], "PAYER1").tuples[1]]
      ofGroup(it, g) == Concat([j \in 1..Len(pricesOf(g)) |-> ofPrice(it, g, pricesOf(g)[j])])
      ofItem(it) == Concat([i \in 1..Len(groupsOf(it)) |-> ofGroup(it, groupsOf(it)[i])])
  IN Concat([n \in 1..Len(items) |-> ofItem(items[n])])

\* C15: for a file of the standard shape the parser ends normally having
\* emitted exactly one tuple per (in_network item, rate group, price entry
\* with a rate, provider attribution), in document order.
C15_OneTuplePerAttribution ==
  (unit.op = "parse" /\ unit.done /\ "in_network" \in DOMAIN unit.data) =>
    /\ ~unit.result.raised
    /\ unit.result.tuples = ExpectedTuples(unit.data)

\* a standard file without its price entries that have no rate
WithoutNullPrices(data) ==
  LET stripGroup(g) ==
        [g EXCEPT !.negotiated_prices =
           JList(SelectSeq(g.negotiated_prices.list,
                           LAMBDA p : Get(p, "negotiated_rate") # JNull))]
      stripItem(it) ==
        IF "negotiated_rates" \in DOMAIN it
        THEN [it EXCEPT !.negotiated_rates =
                JList([i \in 1..Len(it.negotiated_rates.list) |->
                         stripGroup(it.negotiated_rates.list[i])])]
        ELSE it
  IN [in_network |-> JList([n \in 1..Len(data.in_network.list) |->
                              stripItem(data.in_network.list[n])])]

\* C16: a price entry whose negotiated_rate is null yields no tuple and
\* does not fail the file: the parser yields, and ends, exactly as it does on
\* the same file without its null-rate price entries.
C16_NullRateSkipped ==
  (unit.op = "parse" /\ unit.done /\ "in_network" \in DOMAIN unit.data) =>
    unit.result = stream_parse_enhanced(WithoutNullPrices(unit.data),
                                        ProviderReferences, "PAYER1")

C16_Witness ==
  /\ unit.op = "parse" /\ unit.done
  /\ "in_network" \in DOMAIN unit.data
  /\ unit.data # WithoutNullPrices(unit.data)
  /\ Len(unit.data.in_network.list) = 2
  /\ ~unit.result.raised
  /\ Len(unit.result.tuples) = 3
  /\ unit.result.tuples[1].negotiated_rate = JNum(1)
  /\ unit.result.tuples[2].negotiated_rate = JNum(2)
  /\ unit.result.tuples[3].negotiated_rate = JNum(1)

\* C17 as stated: for an index of shape reporting_structure every
\* (structure, in_network_file) pair yields exactly one in_network_rates
\* descriptor, in source order, carrying the location of the first
\* provider_references entry of its structure.
C17_EveryPairOneDescriptor ==
  (unit.op = "list_mrf_blobs_enhanced" /\ unit.status = "returned"
   /\ "reporting_structure" \in DOMAIN unit.data) =>
    LET structures == unit.data.reporting_structure.list
        filesOf(s) == IF "in_network_files" \in DOMAIN s THEN s.in_network_files.list ELSE <<>>
        withRef(s, info) ==
          IF "provider_references" \in DOMAIN s /\ s.provider_references.list # <<>>
          THEN ("provider_reference_url" :> Get(s.provider_references.list[1], "location")) @@ info
          ELSE info
        ofStructure(i) ==
          [j \in 1..Len(filesOf(structures[i])) |->
             withRef(structures[i],
                     mrf_info(Get(filesOf(structures[i])[j], "location"),
                              "in_network_rates", i - 1, j - 1))]
    IN SelectSeq(unit.result, LAMBDA d : d.type = "in_network_rates")
         = Concat([i \in 1..Len(structures) |-> ofStructure(i)])

\* C17 amended: every (structure, in_network_file) pair whose file entry
\* has a location yields exactly one in_network_rates descriptor (an entry
\* without location yields none), in source order, and each carries as
\* provider_reference_url the location of the first provider_references
\* entry of its structure that has a location (no such key when none has).
C17_LocatedPairOneDescriptor ==
  (unit.op = "list_mrf_blobs_enhanced" /\ unit.status = "returned"
   /\ "reporting_structure" \in DOMAIN unit.data) =>
    LET structures == unit.data.reporting_structure.list
        filesOf(s) == IF "in_network_files" \in DOMAIN s THEN s.in_network_files.list ELSE <<>>
        refsOf(s) == IF "provider_references" \in DOMAIN s
                     THEN SelectSeq(s.provider_references.list,
                                    LAMBDA r : "location" \in DOMAIN r)
                     ELSE <<>>
        withRef(s, info) ==
          IF refsOf(s) # <<>>
          THEN ("provider_reference_url" :> refsOf(s)[1].location) @@ info
          ELSE info
        ofFile(i, j) ==
          IF "location" \in DOMAIN filesOf(structures[i])[j]
          THEN <<withRef(structures[i],
                         mrf_info(filesOf(structures[i])[j].location,
                                  "in_network_rates", i - 1, j - 1))>>
          ELSE <<>>
        ofStructure(i) == Concat([j \in 1..Len(filesOf(structures[i])) |-> ofFile(i, j)])
    IN SelectSeq(unit.result, LAMBDA d : d.type = "in_network_rates")
         = Concat([i \in 1..Len(structures) |-> ofStructure(i)])

C17_Witness ==
  /\ unit.op = "list_mrf_blobs_enhanced" /\ unit.status = "returned"
  /\ "reporting_structure" \in DOMAIN unit.data
  /\ Len(unit.data.reporting_structure.list) = 2
  /\ Len(unit.result) = 4
  /\ unit.result[1] = [url |-> JStr("u1"), type |-> "in_network_rates",
                        reporting_structure_index |-> 0, file_index |-> 0,
                        provider_reference_url |-> JStr("r1")]
  /\ unit.result[2].url = JStr("u2")
  /\ unit.result[3].type = "allowed_amounts"
  /\ unit.result[4] = [url |-> JStr("u3"), type |-> "in_network_rates",
                        reporting_structure_index |-> 1, file_index |-> 1,
                        provider_reference_url |-> JStr("r2")]

\* C18: a fetch makes at most 3 attempts: it returns on the first
\* successful attempt, goes on after a failed one, and raises only when the
\* third attempt in a row has failed.
C18_AtMostThreeAttempts ==
  unit.op \in {"list_mrf_blobs_enhanced", "fetch_url"} =>
    LET a == unit.attempts
    IN /\ Len(a) <= 3
       /\ \A i \in 1..(Len(a) - 1) : a[i] # Ok
       /\ unit.status = "returned" <=> (a # <<>> /\ a[Len(a)] = Ok)
       /\ unit.status = "raised" <=> (Len(a) = 3 /\ a[3] # Ok)

C18_Witness ==
  /\ unit.op = "fetch_url"
  /\ unit.status = "returned"
  /\ unit.attempts = <<HTTPError(500), ConnectionError, Ok>>

\* C19: a permanent failure (a 4xx status other than 408 and 429, or an
\* index of no accepted shape) is not retried: it is the only attempt and
\* the error is raised at once.
C19_PermanentNotRetried ==
  unit.op \in {"list_mrf_blobs_enhanced", "fetch_url"} =>
    \A i \in DOMAIN unit.attempts :
      LET o == unit.attempts[i]
          permanent == \/ o.error = "HTTPError" /\ o.status \in (400..499) \ {408, 429}
                       \/ o.error = "ValueError"
      IN permanent => (Len(unit.attempts) = 1 /\ unit.status = "raised")

C21_AdaptationPure ==
  (unit.op = "adapt" /\ unit.done /\ ~unit.raised) => unit.after = unit.record

\* C28: for every registered handler, parse_in_network applied to a
\* well-formed in-network item returns a non-empty list and does not raise.
C28_HandlersAcceptWellFormed ==
  (unit.op = "adapt" /\ unit.done /\ unit.cls # "PayerHandler") =>
    (~unit.raised /\ unit.items # <<>>)

\* C22: on every exit path of process_all_payers (the final statistics
\* written, or the aggregated tables or the statistics raising) the run's
\* temporary directory no longer exists, whatever payers or files failed.
C22_TempDirRemoved ==
  pc = "done" => temp_dir # "exists"

C22_Witness ==
  /\ pc = "done"
  /\ config.s3_bucket
  /\ temp_dir = "removed"
  /\ stats.errors # <<>>
  /\ stats.files_failed > 0

RECURSIVE SumOf(_, _)
\* the sum of counter f over the payer_stats of the entries of log
SumOf(log, f) == IF log = <<>> THEN 0 ELSE Head(log).stats[f] + SumOf(Tail(log), f)

C29_OnlyValidatedBatched ==
  LET orgs_of_rates == {appended.rates[i].organization_uuid :
                          i \in 1..Len(appended.rates)}
  IN /\ \A i \in 1..Len(appended.rates) :
          /\ appended.rates[i].quality_flags.is_validated
          /\ validate_rate_record(appended.rates[i]).is_validated
     /\ \A i \in 1..Len(rate_batch) :
          /\ rate_batch[i].quality_flags.is_validated
          /\ \E j \in 1..Len(appended.rates) : appended.rates[j] = rate_batch[i]
     /\ \A i \in 1..Len(appended.organizations) :
          appended.organizations[i].organization_uuid \in orgs_of_rates
     /\ \A i \in 1..Len(appended.providers) :
          appended.providers[i].organization_uuid \in orgs_of_rates
     /\ \A i \in 1..Len(org_batch) :
          org_batch[i].organization_uuid \in orgs_of_rates
     /\ \A i \in 1..Len(provider_batch) :
          provider_batch[i].organization_uuid \in orgs_of_rates
     /\ file_stats.records_validated = Len(appended.rates)
     /\ file_stats.records_validated <= file_stats.records_extracted

C29_Witness ==
  /\ pc = "stream"
  /\ file_stats.records_extracted = 3
  /\ file_stats.records_validated = 1
  /\ Len(rate_batch) = 1
  /\ Len(provider_batch) = 2
  /\ Len(org_batch) = 1

\* the path the k-th batch file of a writer is expected at
BatchFileName(output_path, k) ==
  IF k = 1 THEN <<output_path.stem, output_path.suffix>>
  ELSE <<output_path.stem, "_", (k - 1) \div 1000, ((k - 1) \div 100) % 10,
         ((k - 1) \div 10) % 10, (k - 1) % 10, output_path.suffix>>

C26_ReferenceResolvedById ==
  (unit.op = "resolve" /\ unit.done) =>
    LET ids == unit.item.negotiated_rates.list[1].provider_references.list
        entries == IF "provider_references" \in DOMAIN unit.file
                   THEN unit.file.provider_references.list ELSE <<>>
        with(id) == {i \in 1..Len(entries) : entries[i].provider_group_id = JNum(id)}
        tuples == unit.result.tuples
    IN /\ ~unit.result.raised
       /\ Len(tuples) = Len(ids)
       /\ \A k \in 1..Len(ids) :
            IF with(ids[k]) # {}
            THEN \E i \in with(ids[k]) :
                   /\ tuples[k].provider_npi = entries[i].npi
                   /\ tuples[k].provider_tin = entries[i].tin.value
            ELSE /\ tuples[k].provider_npi = JNull
                 /\ tuples[k].provider_name = JNull
                 /\ tuples[k].provider_tin = JNull

\* the attributions of a rate group when a provider group without npi, tin
\* and providers counts as one anonymous attribution
GenericAttributionsOf(g) ==
  LET groups == IF "provider_groups" \in DOMAIN g THEN g.provider_groups.list ELSE <<>>
  IN IF groups # <<>>
     THEN Concat([k \in 1..Len(groups) |->
                    IF "npi" \in DOMAIN groups[k] \/ "tin" \in DOMAIN groups[k]
                    THEN <<groups[k]>>
                    ELSE IF "providers" \in DOMAIN groups[k]
                    THEN groups[k].providers.list
                    ELSE <<EmptyDict>>])
     ELSE <<EmptyDict>>

\* the rate groups of a standard file that have no provider_references
GroupsWithoutReferences(data) ==
  Concat([n \in 1..Len(data.in_network.list) |->
            IF "negotiated_rates" \in DOMAIN data.in_network.list[n]
            THEN SelectSeq(data.in_network.list[n].negotiated_rates.list,
                           LAMBDA g : "provider_references" \notin DOMAIN g)
            ELSE <<>>])

\* C27: in a file whose rate groups have no provider_references and at
\* least one attribution without provider info (a rate group without
\* provider_groups, or a provider group without npi, tin and providers), the
\* parser does not fail and each price entry with a rate gives one tuple per
\* attribution, the anonymous ones with npi, name and tin all null.
C27_GenericTupleEmitted ==
  (/\ unit.op = "parse" /\ unit.done
   /\ "in_network" \in DOMAIN unit.data
   /\ GroupsWithoutReferences(unit.data) # <<>>
   /\ \A n \in 1..Len(unit.data.in_network.list) :
        "negotiated_rates" \in DOMAIN unit.data.in_network.list[n] =>
          \A i \in 1..Len(unit.data.in_network.list[n].negotiated_rates.list) :
            "provider_references" \notin
              DOMAIN unit.data.in_network.list[n].negotiated_rates.list[i]
   /\ \E i \in 1..Len(GroupsWithoutReferences(unit.data)) :
        \E k \in 1..Len(GenericAttributionsOf(GroupsWithoutReferences(unit.data)[i])) :
          GenericAttributionsOf(GroupsWithoutReferences(unit.data)[i])[k] = EmptyDict) =>
    LET groups == GroupsWithoutReferences(unit.data)
        priced(g) == SelectSeq(g.negotiated_prices.list,
                               LAMBDA p : Get(p, "negotiated_rate") # JNull)
        expected == Concat([i \in 1..Len(groups) |->
                      Concat([j \in 1..Len(priced(groups[i])) |->
                                GenericAttributionsOf(groups[i])])])
    IN /\ ~unit.result.raised
       /\ Len(unit.result.tuples) = Len(expected)
       /\ \A k \in 1..Len(expected) :
            expected[k] = EmptyDict =>
              /\ unit.result.tuples[k].provider_npi = JNull
              /\ unit.result.tuples[k].provider_name = JNull
              /\ unit.result.tuples[k].provider_tin = JNull

\* the tuples of a file whose in-network items go through the handler
\* before they are parsed
TuplesOfAdapted(cls, data) ==
  Chain([n \in 1..Len(data.in_network.list) |->
           LET a == parse_in_network(cls, data.in_network.list[n])
           IN IF a.raised THEN Raised(<<>>)
              ELSE Chain([k \in 1..Len(a.items) |->
                            parse_negotiated_rates(a.items[k], EmptyDict, "PAYER1")])])

\* C25: when the pipeline streams a file, the tuples it gets are those of
\* the items returned by the payer's handler for the in-network items of
\* the file.
C25_HandlerAppliedWhileStreaming ==
  (unit.op = "stream" /\ unit.done /\ unit.caller = "pipeline") =>
    /\ ~unit.result.raised
    /\ unit.result = TuplesOfAdapted(unit.cls, unit.data)

====
